---- MODULE Spec2Model ----
(***************************************************************************)
(* A model of src/protocol.rs of shpool: the chunk codec (Chunk::write_to, *)
(* Chunk::read_into), AttachHeader::local_env_get, the Client transport    *)
(* (write_connect_header, read_reply, pipe_bytes) and the attach relay     *)
(* pipe_bytes runs: the stdin->sock worker, the sock->stdout worker and    *)
(* the supervising loop.                                                   *)
(***************************************************************************)
EXTENDS Integers, Sequences, FiniteSets, TLC

(***************************************************************************)
(* Bounds of the model.                                                    *)
(***************************************************************************)
\* consts::BUF_SIZE, the length of both scratch buffers (scaled down).
BUF_SIZE == 2
\* How many inputs arrive in one run: frames the daemon writes and stdin
\* reads that return data, together.
MaxInputs == 2
\* How many Client calls (write_connect_header, read_reply) one run makes.
MaxCalls == 2

\* The values a payload byte or a typed byte takes in the model.
DataBytes == {0, 1}

(***************************************************************************)
(* Bytes and sequences.                                                    *)
(***************************************************************************)
Take(s, n) == SubSeq(s, 1, n)

Drop(s, n) == SubSeq(s, n + 1, Len(s))

IsPrefix(s, t) == Len(s) <= Len(t) /\ Take(t, Len(s)) = s

\* Sequences over S of length lo..hi.
SeqsOf(S, lo, hi) == UNION {[1..n -> S] : n \in lo..hi}

\* byteorder WriteBytesExt::write_u32::<LittleEndian>: the four bytes of n
\* (every n the model writes is below 2^31).
LE32(n) ==
    << n % 256, (n \div 256) % 256, (n \div 65536) % 256, (n \div 16777216) % 256 >>

\* byteorder ReadBytesExt::read_u32::<LittleEndian>: the word of four bytes,
\* kept as its two 16-bit halves so that every u32 has a value here.
FromLE32(b) == [lo |-> b[1] + 256 * b[2], hi |-> b[3] + 256 * b[4]]

\* A length that comes out one short.
AsUsizeShort(w) == IF w.lo > 0 THEN w.lo - 1 ELSE 0

\* `as usize` of a word known to be small.
AsUsize(w) == w.hi * 65536 + w.lo

\* byteorder write_u64::<LittleEndian>, as bincode writes lengths.
LE64(n) == LE32(n) \o << 0, 0, 0, 0 >>

(***************************************************************************)
(* ChunkKind and the chunk frame.                                          *)
(***************************************************************************)
\* `self.kind as u8`
Data == 0

Heartbeat == 1

\* ChunkKind::from_u8: does the match reach an Ok arm?
FromU8Ok(v) == v \in {Data, Heartbeat}

\* A Chunk value: kind and buf.
Chunk(k, p) == [kind |-> k, buf |-> p]

\* Chunk::write_to, first loop: the tag byte.
TagBytes(c) == << c.kind >>

\* A length prefix written big endian.
LenBytesBigEndian(c) ==
    << 0, 0, (Len(c.buf) \div 256) % 256, Len(c.buf) % 256 >>

\* Chunk::write_to, second loop: `self.buf.len() as u32`, little endian.
LenBytes(c) == LE32(Len(c.buf))

\* Chunk::write_to when stop is never set and the writer takes every byte:
\* tag, length prefix, payload.
WriteTo(c) == TagBytes(c) \o LenBytes(c) \o c.buf

\* A size check that is off by one.
OversizedOffByOne(w, cap) == w.hi > 0 \/ w.lo > cap + 1

\* Chunk::read_into's size check: `len as usize > buf.len()`.
Oversized(w, cap) ==
    \/ w.hi > cap \div 65536
    \/ w.hi = cap \div 65536 /\ w.lo > cap % 65536

\* A read that leaves the scratch buffer as it was.
FillBufNot(b, got) == b

\* `r.read_exact(&mut buf[..len])`: the scratch buffer after the read put
\* the bytes got at its start.
FillBuf(b, got) == [i \in 1..Len(b) |-> IF i <= Len(got) THEN got[i] ELSE b[i]]

\* The payloads a valid chunk of the model carries.
Payloads == SeqsOf(DataBytes, 0, BUF_SIZE)

ValidChunks == {Chunk(k, p) : k \in {Data, Heartbeat}, p \in Payloads}

RECURSIVE DataConcat(_)
\* The payloads of the Data chunks of a sequence of chunks, concatenated.
DataConcat(cs) ==
    IF cs = << >> THEN << >>
    ELSE (IF Head(cs).kind = Data THEN Head(cs).buf ELSE << >>) \o DataConcat(Tail(cs))

RECURSIVE Frames(_)
\* The stream a sequence of chunks makes, each written by write_to.
Frames(cs) == IF cs = << >> THEN << >> ELSE WriteTo(Head(cs)) \o Frames(Tail(cs))

(***************************************************************************)
(* State.                                                                  *)
(***************************************************************************)
VARIABLES
    phase,          \* "client": a Client owns the socket; "relay": pipe_bytes
                    \* runs; "closed": the Client is gone; "codec": no Client
    traffic,        \* what the Client did on the socket, in order
    hdr_log,        \* the headers passed to write_connect_header, in order
    last_ret,       \* what the last call on the Client returned
    stop,           \* pipe_bytes: `stop`
    in_pc,          \* stdin->sock worker: where it is
    in_to_write,    \* stdin->sock worker: `to_write`
    in_res,         \* stdin->sock worker: what the thread returned
    stdin_log,      \* every byte stdin.read has returned
    sock_out,       \* every byte written to the socket by the client
    out_pc,         \* sock->stdout worker: where it is
    kind,           \* read_into: `kind`
    len,            \* read_into: `len`
    buf,            \* sock->stdout worker: `buf`, the scratch buffer
    out_to_write,   \* sock->stdout worker: `to_write`
    out_res,        \* sock->stdout worker: what the thread returned
    stdout_log,     \* every byte written to stdout
    chunks_read,    \* the chunks read_into has returned, in order
    consumed,       \* how many bytes were read from the socket
    frame_start,    \* `consumed` when the current read_into was called
    sock_in,        \* bytes the daemon wrote that the client has not read
    daemon_closed,  \* the daemon closed its end of the socket
    sent,           \* the chunks the daemon wrote, in order
    all_valid,      \* the daemon wrote nothing but whole valid chunks
    deleted_at,     \* the position of the byte deleted from the stream, or 0
    inputs_left,    \* inputs (daemon frames, stdin data) still to arrive
    sup_pc,         \* pipe_bytes: where the supervising thread is
    result,         \* what pipe_bytes returned
    first_failed,   \* the worker that ended with an error first
    flush_err,      \* sock->stdout worker: the `e` of `if let Err(e) = stdout.flush()`
    wr_pc,          \* write_to: where it is
    wr_chunk,       \* write_to: `self`
    wr_to_write,    \* write_to: `to_write`
    wr_res,         \* write_to: what it returned
    wire,           \* every byte the writer `w` has accepted
    wr_blocks,      \* how many times the writer has answered WouldBlock
    local_env,      \* AttachHeader: `local_env`
    var,            \* local_env_get: `var`
    env_ret         \* local_env_get: what it returned

client_vars == << phase, traffic, hdr_log, last_ret >>

in_vars == << in_pc, in_to_write, in_res, stdin_log, sock_out >>

out_vars ==
    << out_pc, kind, len, buf, out_to_write, out_res, stdout_log, chunks_read,
       consumed, frame_start, flush_err >>

daemon_vars == << sock_in, daemon_closed, sent, all_valid, deleted_at >>

sup_vars == << sup_pc, result >>

writer_vars == << wr_pc, wr_chunk, wr_to_write, wr_res, wire, wr_blocks >>

env_vars == << local_env, var, env_ret >>

vars ==
    << client_vars, stop, in_vars, out_vars, daemon_vars, sup_vars, first_failed,
       inputs_left, writer_vars, env_vars >>

\* No call of Chunk::write_to is under way.
NoWriter ==
    /\ wr_pc = "none" /\ wr_chunk = "none" /\ wr_to_write = << >>
    /\ wr_res = "none" /\ wire = << >> /\ wr_blocks = 0

\* local_env_get has not returned.
Pending == [pending |-> TRUE]

\* No call of AttachHeader::local_env_get is under way.
NoLookup == local_env = << >> /\ var = "none" /\ env_ret = Pending

(***************************************************************************)
(* The errors the workers return (the anyhow context of each `?`).         *)
(***************************************************************************)
ErrFcntl == "setting stdin nonblocking"

ErrStdinRead == "reading stdin from user"

ErrSockWrite == "writing chunk to server"

ErrSockFlush == "flushing client"

ErrEof == "reading output chunk from daemon: unexpected end of file"

ErrOversize == "reading output chunk from daemon: chunk exceeds size limit"

ErrUnknownKind == "reading output chunk from daemon: unknown FrameKind"

ErrSelect == "selecting on stdout"

ErrStdoutWrite == "writing chunk to stdout"

ErrClone == "cloning read stream"

InErrors == {ErrFcntl, ErrStdinRead, ErrSockWrite, ErrSockFlush}

OutErrors == {ErrEof, ErrOversize, ErrUnknownKind, ErrSelect, ErrStdoutWrite}

\* A load that takes the flag: it reads it and leaves it false.
StopTake == stop' = FALSE

\* `stop.load(Ordering::Relaxed)` in a worker: the flag stays as it is.
StopLoad == UNCHANGED stop

\* The first worker to end with an error, recorded when a worker ends.
NoteFailure(who) == first_failed' = IF first_failed = "none" THEN who ELSE first_failed

(***************************************************************************)
(* pipe_bytes: the stdin->sock worker.                                     *)
(***************************************************************************)
\* The thread returns `r`.
InReturn(r) ==
    /\ in_pc' = "done"
    /\ in_res' = r
    /\ IF r = "ok" THEN UNCHANGED first_failed ELSE NoteFailure("in")

\* fcntl(F_SETFL, O_NONBLOCK) on stdin.
InStart ==
    /\ phase = "relay" /\ in_pc = "start"
    /\ \/ in_pc' = "check1" /\ UNCHANGED << in_res, first_failed >>
       \/ InReturn(ErrFcntl)
    /\ UNCHANGED << in_to_write, stdin_log, sock_out >>
    /\ UNCHANGED << client_vars, stop, out_vars, daemon_vars, sup_vars, inputs_left >>
    /\ UNCHANGED << writer_vars, env_vars >>

\* Head of the outer loop: `if stop.load() { return Ok(()) }`.
InCheck1 ==
    /\ phase = "relay" /\ in_pc = "check1"
    /\ IF stop THEN InReturn("ok")
       ELSE in_pc' = "read" /\ UNCHANGED << in_res, first_failed >>
    /\ UNCHANGED << in_to_write, stdin_log, sock_out >>
    /\ StopLoad /\ UNCHANGED << client_vars, out_vars, daemon_vars, sup_vars, inputs_left >>
    /\ UNCHANGED << writer_vars, env_vars >>

\* A worker that takes a short write for a whole one.
AdvanceWhole(w, nwritten) == << >>

\* `to_write = &to_write[nwritten..]`, in both workers.
Advance(w, nwritten) == Drop(w, nwritten)

\* A worker that ends when it has nothing to write.
InEndsOnEmpty(w) == IF Len(w) > 0 THEN "check2" ELSE "done"

\* Where the worker goes with `to_write` set: the inner loop runs while
\* to_write.len() > 0, and the flush follows it.
InAfterSlice(w) == IF Len(w) > 0 THEN "check2" ELSE "flush"

\* `stdin.read(&mut buf)`: data, end of file (Ok(0)), WouldBlock or an error.
InRead ==
    /\ phase = "relay" /\ in_pc = "read"
    /\ \/ /\ inputs_left > 0
          /\ \E d \in SeqsOf(DataBytes, 1, BUF_SIZE) :
                /\ stdin_log' = stdin_log \o d
                /\ in_to_write' = d
                /\ in_pc' = InAfterSlice(d)
          /\ inputs_left' = inputs_left - 1
          /\ UNCHANGED << in_res, first_failed >>
       \/ /\ in_to_write' = << >>
          /\ in_pc' = InAfterSlice(<< >>)
          /\ UNCHANGED << stdin_log, inputs_left, in_res, first_failed >>
       \/ /\ in_pc' = "check1"
          /\ UNCHANGED << in_to_write, stdin_log, inputs_left, in_res, first_failed >>
       \/ /\ InReturn(ErrStdinRead)
          /\ UNCHANGED << in_to_write, stdin_log, inputs_left >>
    /\ UNCHANGED sock_out
    /\ UNCHANGED << client_vars, stop, out_vars, daemon_vars, sup_vars >>
    /\ UNCHANGED << writer_vars, env_vars >>

\* Head of the inner loop: `if stop.load() { return Ok(()) }`.
InCheck2 ==
    /\ phase = "relay" /\ in_pc = "check2"
    /\ IF stop THEN InReturn("ok")
       ELSE in_pc' = "write" /\ UNCHANGED << in_res, first_failed >>
    /\ UNCHANGED << in_to_write, stdin_log, sock_out >>
    /\ StopLoad /\ UNCHANGED << client_vars, out_vars, daemon_vars, sup_vars, inputs_left >>
    /\ UNCHANGED << writer_vars, env_vars >>

\* `write_client_stream.write(to_write)`: the socket takes nwritten bytes,
\* or the write fails (the daemon closed the socket).
InWrite ==
    /\ phase = "relay" /\ in_pc = "write"
    /\ \/ /\ ~daemon_closed
          /\ \E nwritten \in 0..Len(in_to_write) :
                /\ sock_out' = sock_out \o Take(in_to_write, nwritten)
                /\ in_to_write' = Advance(in_to_write, nwritten)
                /\ in_pc' = InAfterSlice(Advance(in_to_write, nwritten))
          /\ UNCHANGED << in_res, first_failed >>
       \/ /\ daemon_closed
          /\ InReturn(ErrSockWrite)
          /\ UNCHANGED << in_to_write, sock_out >>
    /\ UNCHANGED stdin_log
    /\ UNCHANGED << client_vars, stop, out_vars, daemon_vars, sup_vars, inputs_left >>
    /\ UNCHANGED << writer_vars, env_vars >>

\* `write_client_stream.flush()`.
InFlush ==
    /\ phase = "relay" /\ in_pc = "flush"
    /\ \/ in_pc' = "check1" /\ UNCHANGED << in_res, first_failed >>
       \/ daemon_closed /\ InReturn(ErrSockFlush)
    /\ UNCHANGED << in_to_write, stdin_log, sock_out >>
    /\ UNCHANGED << client_vars, stop, out_vars, daemon_vars, sup_vars, inputs_left >>
    /\ UNCHANGED << writer_vars, env_vars >>

(***************************************************************************)
(* pipe_bytes: the sock->stdout worker, with Chunk::read_into in it.       *)
(***************************************************************************)
\* The thread returns `r`.
OutReturn(r) ==
    /\ out_pc' = "done"
    /\ out_res' = r
    /\ IF r = "ok" THEN UNCHANGED first_failed ELSE NoteFailure("out")

\* Head of the outer loop: `if stop.load() { return Ok(()) }`, then the
\* call of Chunk::read_into. An error left by the flush before is gone.
OutCheck1 ==
    /\ phase \in {"relay", "codec"} /\ out_pc = "check1"
    /\ IF stop THEN OutReturn("ok") /\ UNCHANGED frame_start
       ELSE /\ out_pc' = "rdKind"
            /\ frame_start' = consumed
            /\ UNCHANGED << out_res, first_failed >>
    /\ UNCHANGED << kind, len, buf, out_to_write, stdout_log, chunks_read, consumed >>
    /\ StopLoad /\ UNCHANGED << client_vars, in_vars, daemon_vars, sup_vars, inputs_left >>
    /\ UNCHANGED << writer_vars, env_vars >>
    /\ flush_err' = FALSE

\* The socket read takes n bytes off the stream.
Consume(n) ==
    /\ sock_in' = Drop(sock_in, n)
    /\ consumed' = consumed + n
    /\ UNCHANGED << daemon_closed, sent, all_valid, deleted_at >>

\* read_into: `let kind = r.read_u8()?`. The read blocks while the stream is
\* empty and open, and fails at end of file.
OutReadKind ==
    /\ phase \in {"relay", "codec"} /\ out_pc = "rdKind"
    /\ \/ /\ Len(sock_in) >= 1
          /\ kind' = Head(sock_in)
          /\ Consume(1)
          /\ out_pc' = "rdLen"
          /\ UNCHANGED << out_res, first_failed >>
       \/ /\ Len(sock_in) < 1 /\ daemon_closed
          /\ Consume(0)
          /\ OutReturn(ErrEof)
          /\ UNCHANGED kind
    /\ UNCHANGED << len, buf, out_to_write, stdout_log, chunks_read, frame_start >>
    /\ UNCHANGED << client_vars, stop, in_vars, sup_vars, inputs_left >>
    /\ UNCHANGED << writer_vars, env_vars >>
    /\ UNCHANGED flush_err

\* read_into: `let len = r.read_u32::<LittleEndian>()?` and the size check
\* `if len > buf.len() { return Err(..) }`.
OutReadLen ==
    /\ phase \in {"relay", "codec"} /\ out_pc = "rdLen"
    /\ \/ /\ Len(sock_in) >= 4
          /\ Consume(4)
          /\ IF Oversized(FromLE32(Take(sock_in, 4)), Len(buf))
             THEN OutReturn(ErrOversize) /\ UNCHANGED len
             ELSE /\ len' = AsUsize(FromLE32(Take(sock_in, 4)))
                  /\ out_pc' = "rdPayload"
                  /\ UNCHANGED << out_res, first_failed >>
       \/ /\ Len(sock_in) < 4 /\ daemon_closed
          /\ Consume(Len(sock_in))
          /\ OutReturn(ErrEof)
          /\ UNCHANGED len
    /\ UNCHANGED << kind, buf, out_to_write, stdout_log, chunks_read, frame_start >>
    /\ UNCHANGED << client_vars, stop, in_vars, sup_vars, inputs_left >>
    /\ UNCHANGED << writer_vars, env_vars >>
    /\ UNCHANGED flush_err

\* A worker that drains every chunk, whatever its kind.
OutDrainsAll(k, w) == IF Len(w) > 0 THEN "check2" ELSE "flush"

\* Where the worker goes with the chunk read_into returned: a Heartbeat goes
\* back to the head of the loop, a Data chunk is drained and flushed.
OutAfterChunk(k, w) ==
    IF k = Heartbeat THEN "check1" ELSE IF Len(w) > 0 THEN "check2" ELSE "flush"

\* read_into: `r.read_exact(&mut buf[..len])?`, then
\* `Ok(Chunk { kind: ChunkKind::from_u8(kind)?, buf: &buf[..len] })`, and the
\* worker's `let mut to_write = &chunk.buf[..]; match chunk.kind`.
OutReadPayload ==
    /\ phase \in {"relay", "codec"} /\ out_pc = "rdPayload"
    /\ \/ /\ Len(sock_in) >= len
          /\ Consume(len)
          /\ buf' = FillBuf(buf, Take(sock_in, len))
          /\ IF FromU8Ok(kind)
             THEN /\ chunks_read' = Append(chunks_read, Chunk(kind, Take(buf', len)))
                  /\ out_to_write' = Take(buf', len)
                  /\ out_pc' = OutAfterChunk(kind, Take(buf', len))
                  /\ UNCHANGED << out_res, first_failed >>
             ELSE /\ OutReturn(ErrUnknownKind)
                  /\ UNCHANGED << chunks_read, out_to_write >>
       \/ /\ Len(sock_in) < len /\ daemon_closed
          /\ Consume(Len(sock_in))
          /\ buf' = FillBuf(buf, sock_in)
          /\ OutReturn(ErrEof)
          /\ UNCHANGED << chunks_read, out_to_write >>
    /\ UNCHANGED << kind, len, stdout_log, frame_start >>
    /\ UNCHANGED << client_vars, stop, in_vars, sup_vars, inputs_left >>
    /\ UNCHANGED << writer_vars, env_vars >>
    /\ UNCHANGED flush_err

\* Head of the drain loop: `if stop.load() { return Ok(()) }`.
OutCheck2 ==
    /\ phase \in {"relay", "codec"} /\ out_pc = "check2"
    /\ IF stop THEN OutReturn("ok")
       ELSE out_pc' = "select" /\ UNCHANGED << out_res, first_failed >>
    /\ UNCHANGED << kind, len, buf, out_to_write, stdout_log, chunks_read, consumed,
                    frame_start >>
    /\ StopLoad /\ UNCHANGED << client_vars, in_vars, daemon_vars, sup_vars, inputs_left >>
    /\ UNCHANGED << writer_vars, env_vars >>
    /\ UNCHANGED flush_err

\* `select(None, None, Some(&mut stdout_set), None, Some(&mut poll_dur))`:
\* stdout is ready, or the select timed out (`continue`), or it failed.
OutSelect ==
    /\ phase \in {"relay", "codec"} /\ out_pc = "select"
    /\ \/ out_pc' = "write" /\ UNCHANGED << out_res, first_failed >>
       \/ out_pc' = "check2" /\ UNCHANGED << out_res, first_failed >>
       \/ OutReturn(ErrSelect)
    /\ UNCHANGED << kind, len, buf, out_to_write, stdout_log, chunks_read, consumed,
                    frame_start >>
    /\ UNCHANGED << client_vars, stop, in_vars, daemon_vars, sup_vars, inputs_left >>
    /\ UNCHANGED << writer_vars, env_vars >>
    /\ UNCHANGED flush_err

\* A write that puts the whole slice out, whatever count it returns.
AcceptedWhole(w, nwritten) == w

\* The bytes stdout takes of the slice when `stdout.write(to_write)` returns
\* nwritten.
Accepted(w, nwritten) == Take(w, nwritten)

\* `stdout.write(to_write)`: stdout takes nwritten bytes, or the write fails.
OutWrite ==
    /\ phase \in {"relay", "codec"} /\ out_pc = "write"
    /\ \/ /\ \E nwritten \in 0..Len(out_to_write) :
                /\ stdout_log' = stdout_log \o Accepted(out_to_write, nwritten)
                /\ out_to_write' = Advance(out_to_write, nwritten)
                /\ out_pc' = IF Len(Advance(out_to_write, nwritten)) > 0
                             THEN "check2" ELSE "flush"
          /\ UNCHANGED << out_res, first_failed >>
       \/ /\ OutReturn(ErrStdoutWrite)
          /\ UNCHANGED << stdout_log, out_to_write >>
    /\ UNCHANGED << kind, len, buf, chunks_read, consumed, frame_start >>
    /\ UNCHANGED << client_vars, stop, in_vars, daemon_vars, sup_vars, inputs_left >>
    /\ UNCHANGED << writer_vars, env_vars >>
    /\ UNCHANGED flush_err

\* `if let Err(e) = stdout.flush() { if WouldBlock { continue } }`: the flush
\* succeeds or would block, or it fails with another error (flush_err), which
\* nothing after the `if let` looks at; each way the loop goes on.
OutFlush ==
    /\ phase \in {"relay", "codec"} /\ out_pc = "flush"
    /\ out_pc' = "check1"
    /\ flush_err' \in BOOLEAN
    /\ UNCHANGED << kind, len, buf, out_to_write, out_res, stdout_log, chunks_read,
                    consumed, frame_start, first_failed >>
    /\ UNCHANGED << client_vars, stop, in_vars, daemon_vars, sup_vars, inputs_left >>
    /\ UNCHANGED << writer_vars, env_vars >>

(***************************************************************************)
(* The daemon at the other end of the socket.                              *)
(***************************************************************************)
\* Frames that are no valid chunk: a declared length over the scratch
\* buffer (with and without payload behind it), an unknown kind, and a
\* frame cut short.
BadFrames ==
    { << Data >> \o LE32(BUF_SIZE + 1) \o << 1 >>,
      << Data, 255, 255, 255, 255 >>,
      << 2 >> \o LE32(0),
      << 2 >> \o LE32(BUF_SIZE + 1),
      << Data >> \o LE32(1) }

\* The daemon writes one whole chunk.
DaemonSend ==
    /\ phase = "relay" /\ ~daemon_closed /\ inputs_left > 0
    /\ \E c \in ValidChunks :
          /\ sock_in' = sock_in \o WriteTo(c)
          /\ sent' = Append(sent, c)
    /\ inputs_left' = inputs_left - 1
    /\ UNCHANGED << daemon_closed, all_valid, deleted_at >>
    /\ UNCHANGED << client_vars, stop, in_vars, out_vars, sup_vars, first_failed >>
    /\ UNCHANGED << writer_vars, env_vars >>

\* The daemon writes bytes that are no valid chunk.
DaemonSendBad ==
    /\ phase = "relay" /\ ~daemon_closed /\ inputs_left > 0
    /\ \E f \in BadFrames : sock_in' = sock_in \o f
    /\ all_valid' = FALSE
    /\ inputs_left' = inputs_left - 1
    /\ UNCHANGED << daemon_closed, sent, deleted_at >>
    /\ UNCHANGED << client_vars, stop, in_vars, out_vars, sup_vars, first_failed >>
    /\ UNCHANGED << writer_vars, env_vars >>

\* The daemon closes its end of the socket.
DaemonClose ==
    /\ phase \in {"client", "relay"} /\ ~daemon_closed
    /\ daemon_closed' = TRUE
    /\ UNCHANGED << sock_in, sent, all_valid, deleted_at, inputs_left >>
    /\ UNCHANGED << client_vars, stop, in_vars, out_vars, sup_vars, first_failed >>
    /\ UNCHANGED << writer_vars, env_vars >>

(***************************************************************************)
(* pipe_bytes: the supervising thread.                                     *)
(***************************************************************************)
\* A handle that reports every thread as finished.
IsSpawned(pc) == TRUE

\* JoinHandle::is_finished.
IsFinished(pc) == pc = "done"

\* `if stdin_to_sock_h.is_finished() || sock_to_stdout_h.is_finished()
\*  { stop.store(true); break }`; otherwise the loop sleeps and polls again.
SupPoll ==
    /\ phase = "relay" /\ sup_pc = "poll"
    /\ IsFinished(in_pc) \/ IsFinished(out_pc)
    /\ stop' = TRUE
    /\ sup_pc' = "joinIn"
    /\ UNCHANGED << client_vars, in_vars, out_vars, daemon_vars, result, first_failed,
                    inputs_left >>
    /\ UNCHANGED << writer_vars, env_vars >>

\* `match stdin_to_sock_h.join() { Ok(v) => v?, .. }`: an error of the
\* stdin->sock worker leaves the closure at once.
SupJoinIn ==
    /\ phase = "relay" /\ sup_pc = "joinIn"
    /\ IsFinished(in_pc)
    /\ IF in_res = "ok"
       THEN sup_pc' = "joinOut" /\ UNCHANGED result
       ELSE sup_pc' = "scopeEnd" /\ result' = in_res
    /\ UNCHANGED << client_vars, stop, in_vars, out_vars, daemon_vars, first_failed,
                    inputs_left >>
    /\ UNCHANGED << writer_vars, env_vars >>

\* `match sock_to_stdout_h.join() { Ok(v) => v?, .. }`, then `Ok(())`.
SupJoinOut ==
    /\ phase = "relay" /\ sup_pc = "joinOut"
    /\ IsFinished(out_pc)
    /\ result' = out_res
    /\ sup_pc' = "scopeEnd"
    /\ UNCHANGED << client_vars, stop, in_vars, out_vars, daemon_vars, first_failed,
                    inputs_left >>
    /\ UNCHANGED << writer_vars, env_vars >>

\* thread::scope returns when every thread spawned in it has ended; the
\* Client, consumed by pipe_bytes, is dropped.
SupScopeEnd ==
    /\ phase = "relay" /\ sup_pc = "scopeEnd"
    /\ IsFinished(in_pc) /\ IsFinished(out_pc)
    /\ sup_pc' = "returned"
    /\ phase' = "closed"
    /\ UNCHANGED << traffic, hdr_log, last_ret >>
    /\ UNCHANGED << stop, in_vars, out_vars, daemon_vars, result, first_failed,
                    inputs_left >>
    /\ UNCHANGED << writer_vars, env_vars >>

(***************************************************************************)
(* The relay: one call of pipe_bytes.                                      *)
(***************************************************************************)
\* The state pipe_bytes sets up: stop false, both workers spawned, each with
\* a zeroed scratch buffer.
RelayStart ==
    /\ stop = FALSE
    /\ in_pc = "start" /\ in_to_write = << >> /\ in_res = "running"
    /\ out_pc = "check1" /\ kind = 0 /\ len = 0
    /\ buf = [i \in 1..BUF_SIZE |-> 0]
    /\ out_to_write = << >> /\ out_res = "running"
    /\ sup_pc = "poll" /\ result = "none" /\ first_failed = "none"

\* Nothing has moved on the socket or the terminal.
Quiet ==
    /\ stdin_log = << >> /\ sock_out = << >>
    /\ stdout_log = << >> /\ chunks_read = << >>
    /\ consumed = 0 /\ frame_start = 0
    /\ sock_in = << >> /\ daemon_closed = FALSE
    /\ sent = << >> /\ all_valid = TRUE /\ deleted_at = 0
    /\ flush_err = FALSE

Init ==
    /\ phase = "relay"
    /\ traffic = << "relay" >> /\ hdr_log = << >> /\ last_ret = "none"
    /\ RelayStart
    /\ Quiet
    /\ inputs_left = MaxInputs
    /\ NoWriter /\ NoLookup

InNext == InStart \/ InCheck1 \/ InRead \/ InCheck2 \/ InWrite \/ InFlush

OutNext ==
    \/ OutCheck1 \/ OutReadKind \/ OutReadLen \/ OutReadPayload
    \/ OutCheck2 \/ OutSelect \/ OutWrite \/ OutFlush

SupNext == SupPoll \/ SupJoinIn \/ SupJoinOut \/ SupScopeEnd

DaemonNext == DaemonSend \/ DaemonSendBad \/ DaemonClose

Next == InNext \/ OutNext \/ SupNext \/ DaemonNext

Spec == Init /\ [][Next]_vars

(***************************************************************************)
(* The messages of the Client and their bincode form (fixed-width little   *)
(* endian integers, u32 variant index, u64 length before strings and       *)
(* sequences, fields in declaration order).                                *)
(***************************************************************************)
\* bincode: a u16.
LE16(n) == << n % 256, (n \div 256) % 256 >>

\* bincode: a String or a byte sequence.
EncString(str) == LE64(Len(str)) \o str

RECURSIVE Concat(_)
\* The sequences of a sequence, concatenated.
Concat(ss) == IF ss = << >> THEN << >> ELSE Head(ss) \o Concat(Tail(ss))

\* bincode: a Vec<String>.
EncStrings(v) == LE64(Len(v)) \o Concat([i \in 1..Len(v) |-> EncString(v[i])])

\* bincode: a Vec<(String, String)>.
EncPairs(v) ==
    LE64(Len(v))
        \o Concat([i \in 1..Len(v) |-> EncString(v[i][1]) \o EncString(v[i][2])])

\* bincode: a tty::Size.
EncSize(sz) == LE16(sz.rows) \o LE16(sz.cols) \o LE16(0) \o LE16(0)

\* The terminal size every header of the model carries.
TtySize == [rows |-> 24, cols |-> 80]

\* The session name "x" and the variable name "T", as bytes.
StrX == << 120 >>

StrT == << 84 >>

\* ConnectHeader values, at least one of every variant.
Headers ==
    { [variant |-> "Attach", name |-> StrX, local_env |-> << >>],
      [variant |-> "Attach", name |-> StrX, local_env |-> << << StrT, StrX >> >>],
      [variant |-> "List"],
      [variant |-> "SessionMessage", session_name |-> StrX, payload |-> "Resize"],
      [variant |-> "SessionMessage", session_name |-> StrX, payload |-> "Detach"],
      [variant |-> "Detach", sessions |-> << StrX >>],
      [variant |-> "Kill", sessions |-> << >>] }

\* serde/bincode of the enum ConnectHeader: the u32 index of the variant in
\* declaration order, then the variant's fields.
EncodeHeader(h) ==
    CASE h.variant = "Attach" ->
            LE32(0) \o EncString(h.name) \o EncSize(TtySize) \o EncPairs(h.local_env)
      [] h.variant = "List" -> LE32(1)
      [] h.variant = "SessionMessage" ->
            LE32(2) \o EncString(h.session_name)
                \o (IF h.payload = "Resize" THEN LE32(0) \o EncSize(TtySize)
                    ELSE LE32(1))
      [] h.variant = "Detach" -> LE32(3) \o EncStrings(h.sessions)
      [] h.variant = "Kill" -> LE32(4) \o EncStrings(h.sessions)

\* A header serialized without the variant index of ConnectHeader.
ConnectBytesNoIndex(h) == Drop(EncodeHeader(h), 4)

\* What write_connect_header puts on the socket for h:
\* `bincode::serialize_into(serialize_stream, &header)`.
ConnectBytes(h) == EncodeHeader(h)

\* AttachStatus values and their variant index.
Statuses == {"Attached", "Created", "Busy", "Forbidden", "UnexpectedError"}

StatusIndex(st) ==
    CASE st = "Attached" -> 0 [] st = "Created" -> 1 [] st = "Busy" -> 2
      [] st = "Forbidden" -> 3 [] st = "UnexpectedError" -> 4

\* bincode of AttachReplyHeader { status }: Forbidden and UnexpectedError
\* carry a String (here "x").
EncodeAttachReply(st) ==
    LE32(StatusIndex(st))
        \o (IF st \in {"Forbidden", "UnexpectedError"} THEN EncString(StrX) ELSE << >>)

\* bincode of a reply that is sequences of strings: KillReply
\* { not_found_sessions }, DetachReply { not_found_sessions,
\* not_attached_sessions }.
EncodeKillReply(v) == EncStrings(v)

EncodeDetachReply(v, w) == EncStrings(v) \o EncStrings(w)

\* bincode of ListReply { sessions }, with no session or the one session
\* { name: "x", started_at_unix_ms: 1 }.
EncodeListReply(n) ==
    LE64(n) \o (IF n = 0 THEN << >> ELSE EncString(StrX) \o LE64(1))

\* bincode of SessionMessageReply: NotFound, NotAttached, Resize(Ok),
\* Detach(Ok), by variant index.
EncodeSessionMessageReply(i) == LE32(i) \o (IF i >= 2 THEN LE32(0) ELSE << >>)

\* The replies the daemon writes.
Replies ==
    {EncodeAttachReply(st) : st \in Statuses}
        \cup {EncodeKillReply(<< >>), EncodeKillReply(<< StrX >>),
              EncodeDetachReply(<< StrX >>, << >>),
              EncodeListReply(1),
              EncodeSessionMessageReply(1), EncodeSessionMessageReply(2)}

\* The outcome of a read: "ok" with a value, "err" (bytes that are no value
\* of the type), or "more" (the value is not whole yet); `used` bytes are read.
Parsed(st, used, val) == [st |-> st, used |-> used, val |-> val]

\* bincode reading a u64 length: its value when it is below 65536, else -1.
SmallLen(b) ==
    IF \A i \in 3..8 : b[i] = 0 THEN b[1] + 256 * b[2] ELSE -1

\* bincode reading a String at the start of r.
ParseString(r) ==
    IF Len(r) < 8 THEN Parsed("more", Len(r), << >>)
    ELSE LET n == SmallLen(Take(r, 8)) IN
         IF n < 0 \/ Len(r) < 8 + n THEN Parsed("more", Len(r), << >>)
         ELSE Parsed("ok", 8 + n, SubSeq(r, 9, 8 + n))

\* bincode reading a Vec<String> at the start of r: of at most one element
\* in the model; a longer one is not whole in any stream here.
ParseStrings(r) ==
    IF Len(r) < 8 THEN Parsed("more", Len(r), "none")
    ELSE LET n == SmallLen(Take(r, 8)) IN
         IF n = 0 THEN Parsed("ok", 8, "strings")
         ELSE IF n = 1
              THEN LET str == ParseString(Drop(r, 8)) IN
                   IF str.st = "ok" THEN Parsed("ok", 8 + str.used, "strings")
                   ELSE Parsed("more", Len(r), "none")
         ELSE Parsed("more", Len(r), "none")

\* bincode::deserialize_from::<AttachReplyHeader>: the u32 variant index of
\* AttachStatus, then the String of Forbidden and UnexpectedError.
ParseAttachReply(r) ==
    IF Len(r) < 4 THEN Parsed("more", Len(r), "none")
    ELSE LET w == FromLE32(Take(r, 4)) IN
         IF w.hi # 0 \/ w.lo > 4 THEN Parsed("err", 4, "none")
         ELSE IF w.lo < 3
              THEN Parsed("ok", 4, CHOOSE st \in Statuses : StatusIndex(st) = w.lo)
         ELSE LET str == ParseString(Drop(r, 4)) IN
              IF str.st = "ok"
              THEN Parsed("ok", 4 + str.used,
                          CHOOSE st \in Statuses : StatusIndex(st) = w.lo)
              ELSE Parsed("more", Len(r), "none")

\* bincode::deserialize_from::<KillReply>.
ParseKillReply(r) ==
    LET v == ParseStrings(r) IN
    IF v.st = "ok" THEN Parsed("ok", v.used, "KillReply") ELSE v

\* bincode::deserialize_from::<DetachReply>.
ParseDetachReply(r) ==
    LET v == ParseStrings(r) IN
    IF v.st # "ok" THEN v
    ELSE LET w == ParseStrings(Drop(r, v.used)) IN
         IF w.st = "ok" THEN Parsed("ok", v.used + w.used, "DetachReply")
         ELSE Parsed("more", Len(r), "none")

\* bincode::deserialize_from::<ListReply>: a Vec<Session> of at most one
\* Session { name, started_at_unix_ms: i64 } in the model.
ParseListReply(r) ==
    IF Len(r) < 8 THEN Parsed("more", Len(r), "none")
    ELSE LET n == SmallLen(Take(r, 8)) IN
         IF n = 0 THEN Parsed("ok", 8, "ListReply")
         ELSE IF n = 1
              THEN LET str == ParseString(Drop(r, 8)) IN
                   IF str.st = "ok" /\ Len(r) >= 8 + str.used + 8
                   THEN Parsed("ok", 8 + str.used + 8, "ListReply")
                   ELSE Parsed("more", Len(r), "none")
         ELSE Parsed("more", Len(r), "none")

\* bincode::deserialize_from::<SessionMessageReply>: the variant index,
\* then the index of the one-variant enum inside Resize and Detach.
ParseSessionMessageReply(r) ==
    IF Len(r) < 4 THEN Parsed("more", Len(r), "none")
    ELSE LET w == FromLE32(Take(r, 4)) IN
         IF w.hi # 0 \/ w.lo > 3 THEN Parsed("err", 4, "none")
         ELSE IF w.lo < 2 THEN Parsed("ok", 4, "SessionMessageReply")
         ELSE IF Len(r) < 8 THEN Parsed("more", Len(r), "none")
         ELSE LET v == FromLE32(SubSeq(r, 5, 8)) IN
              IF v.hi # 0 \/ v.lo # 0 THEN Parsed("err", 8, "none")
              ELSE Parsed("ok", 8, "SessionMessageReply")

\* The reply types read_reply is called with.
ReplyTypes ==
    {"AttachReplyHeader", "KillReply", "DetachReply", "ListReply",
     "SessionMessageReply"}

ParseReply(R, r) ==
    CASE R = "AttachReplyHeader" -> ParseAttachReply(r)
      [] R = "KillReply" -> ParseKillReply(r)
      [] R = "DetachReply" -> ParseDetachReply(r)
      [] R = "ListReply" -> ParseListReply(r)
      [] R = "SessionMessageReply" -> ParseSessionMessageReply(r)

ErrWriteHeader == "writing reply"

ErrParseReply == "parsing header"

(***************************************************************************)
(* The Client.                                                             *)
(***************************************************************************)
\* Every call counts toward the bound on calls.
CallsLeft == Len(traffic) < MaxCalls

\* Client::write_connect_header: the header is serialized into a clone of
\* the stream; the write fails when the daemon has closed the socket.
WriteConnectHeader ==
    /\ phase = "client" /\ CallsLeft
    /\ \E h \in Headers :
          IF daemon_closed
          THEN /\ last_ret' = ErrWriteHeader
               /\ traffic' = Append(traffic, "failed")
               /\ UNCHANGED << hdr_log, sock_out >>
          ELSE /\ sock_out' = sock_out \o ConnectBytes(h)
               /\ hdr_log' = Append(hdr_log, h)
               /\ traffic' = Append(traffic, "hdr")
               /\ last_ret' = "ok"
    /\ UNCHANGED << phase, stop, in_pc, in_to_write, in_res, stdin_log >>
    /\ UNCHANGED << out_vars, daemon_vars, sup_vars, first_failed, inputs_left >>
    /\ UNCHANGED << writer_vars, env_vars >>

\* Client::read_reply::<R>: bincode::deserialize_from(&mut self.stream). The
\* read blocks while the value is not whole and the socket is open.
ReadReply(R) ==
    /\ phase = "client" /\ CallsLeft
    /\ LET got == ParseReply(R, sock_in) IN
          /\ got.st = "more" => daemon_closed
          /\ sock_in' = Drop(sock_in, got.used)
          /\ consumed' = consumed + got.used
          /\ last_ret' = IF got.st = "ok" THEN got.val ELSE ErrParseReply
          /\ traffic' = Append(traffic, IF got.used > 0 THEN "reply" ELSE "failed")
    /\ UNCHANGED << phase, hdr_log, stop, in_vars, sup_vars, first_failed, inputs_left >>
    /\ UNCHANGED << out_pc, kind, len, buf, out_to_write, out_res, stdout_log,
                    chunks_read, frame_start >>
    /\ UNCHANGED << daemon_closed, sent, all_valid, deleted_at >>
    /\ UNCHANGED << writer_vars, env_vars >>
    /\ UNCHANGED flush_err

\* Client::pipe_bytes, up to thread::scope: the stream is cloned twice and
\* both workers are spawned; a failed clone returns at once.
PipeBytes ==
    /\ phase = "client"
    /\ \/ /\ phase' = "relay"
          /\ traffic' = Append(traffic, "relay")
          /\ stop' = FALSE
          /\ in_pc' = "start" /\ in_res' = "running"
          /\ out_pc' = "check1" /\ out_res' = "running"
          /\ buf' = [i \in 1..BUF_SIZE |-> 0]
          /\ sup_pc' = "poll"
          /\ UNCHANGED result
       \/ /\ phase' = "closed"
          /\ result' = ErrClone
          /\ UNCHANGED << traffic, stop, in_pc, in_res, out_pc, out_res, buf, sup_pc >>
    /\ UNCHANGED << hdr_log, last_ret, in_to_write, stdin_log, sock_out >>
    /\ UNCHANGED << kind, len, out_to_write, stdout_log, chunks_read, consumed,
                    frame_start >>
    /\ UNCHANGED << daemon_vars, first_failed, inputs_left >>
    /\ UNCHANGED << writer_vars, env_vars >>
    /\ UNCHANGED flush_err

\* The owner drops the Client: the descriptor is closed.
DropClient ==
    /\ phase = "client"
    /\ phase' = "closed"
    /\ UNCHANGED << traffic, hdr_log, last_ret >>
    /\ UNCHANGED << stop, in_vars, out_vars, daemon_vars, sup_vars, first_failed,
                    inputs_left >>
    /\ UNCHANGED << writer_vars, env_vars >>

\* The daemon writes a reply.
DaemonReply ==
    /\ phase = "client" /\ ~daemon_closed /\ inputs_left > 0
    /\ \E r \in Replies : sock_in' = sock_in \o r
    /\ inputs_left' = inputs_left - 1
    /\ UNCHANGED << daemon_closed, sent, all_valid, deleted_at >>
    /\ UNCHANGED << client_vars, stop, in_vars, out_vars, sup_vars, first_failed >>
    /\ UNCHANGED << writer_vars, env_vars >>

\* No relay runs: no stdin->sock worker, no supervising thread.
NoRelay ==
    /\ stop = FALSE
    /\ in_pc = "none" /\ in_to_write = << >> /\ in_res = "none"
    /\ sup_pc = "none" /\ result = "none" /\ first_failed = "none"

\* A fresh Client: connected, nothing sent or received, no relay.
ClientInit ==
    /\ phase = "client"
    /\ traffic = << >> /\ hdr_log = << >> /\ last_ret = "none"
    /\ NoRelay
    /\ out_pc = "none" /\ kind = 0 /\ len = 0
    /\ buf = [i \in 1..BUF_SIZE |-> 0]
    /\ out_to_write = << >> /\ out_res = "none"
    /\ Quiet
    /\ inputs_left = 1
    /\ NoWriter /\ NoLookup

\* read_reply with any of the reply types.
ReadAnyReply == \E R \in ReplyTypes : ReadReply(R)

ClientNext ==
    \/ WriteConnectHeader \/ ReadAnyReply \/ PipeBytes \/ DropClient
    \/ DaemonReply \/ Next

ClientSpec == ClientInit /\ [][ClientNext]_vars

(***************************************************************************)
(* The owner of a Client, as the state machine of a socket prescribes it:  *)
(* Fresh -> HeaderSent -> (AwaitingReply | Relaying) -> Closed.            *)
(***************************************************************************)
\* The reply type a request is answered with.
ReplyTypeOf(h) ==
    CASE h.variant = "Attach" -> "AttachReplyHeader"
      [] h.variant = "List" -> "ListReply"
      [] h.variant = "SessionMessage" -> "SessionMessageReply"
      [] h.variant = "Detach" -> "DetachReply"
      [] h.variant = "Kill" -> "KillReply"

\* Fresh: nothing was done on the socket.
OwnerMayWrite == traffic = << >>

\* HeaderSent: the header is written and its reply is not read yet.
OwnerMayRead == traffic = << "hdr" >>

\* An owner that relays after any reply to an Attach.
OwnerRelaysAnyStatus ==
    /\ traffic = << "hdr", "reply" >>
    /\ hdr_log[1].variant = "Attach"

\* An attach that was accepted: the header was Attach and the reply read is
\* AttachReplyHeader { status: Attached | Created }.
OwnerMayRelay ==
    /\ traffic = << "hdr", "reply" >>
    /\ hdr_log[1].variant = "Attach"
    /\ last_ret \in {"Attached", "Created"}

\* Fresh -> HeaderSent.
OwnerWrite == OwnerMayWrite /\ WriteConnectHeader

\* HeaderSent -> AwaitingReply: the reply of the request's type is read.
OwnerRead == OwnerMayRead /\ ReadReply(ReplyTypeOf(hdr_log[1]))

\* HeaderSent -> Relaying.
OwnerRelay == OwnerMayRelay /\ PipeBytes

\* -> Closed: a failed call, a reply that is consumed, an attach that the
\* daemon rejected.
OwnerClose == traffic # << >> /\ ~OwnerMayRead /\ ~OwnerMayRelay /\ DropClient

\* A fresh Client; the daemon writes a reply and one frame at most.
OwnerInit ==
    /\ phase = "client"
    /\ traffic = << >> /\ hdr_log = << >> /\ last_ret = "none"
    /\ NoRelay
    /\ out_pc = "none" /\ kind = 0 /\ len = 0
    /\ buf = [i \in 1..BUF_SIZE |-> 0]
    /\ out_to_write = << >> /\ out_res = "none"
    /\ Quiet
    /\ inputs_left = 2
    /\ NoWriter /\ NoLookup

OwnerNext ==
    \/ OwnerWrite \/ OwnerRead \/ OwnerRelay \/ OwnerClose
    \/ DaemonReply \/ Next

OwnerSpec == OwnerInit /\ [][OwnerNext]_vars

(***************************************************************************)
(* The codec alone: chunks written by Chunk::write_to to a stream that is  *)
(* then read to its end by repeated calls of Chunk::read_into (the loop of *)
(* the sock->stdout worker), with one byte of the stream deleted or none.  *)
(***************************************************************************)
\* The stream s without its byte at position i (i = 0: the whole stream).
DeleteAt(s, i) == IF i = 0 THEN s ELSE Take(s, i - 1) \o Drop(s, i)

\* The chunk sequences written: 1..MaxInputs valid chunks.
ChunkSeqs == SeqsOf(ValidChunks, 1, MaxInputs)

CodecInit ==
    /\ phase = "codec"
    /\ traffic = << >> /\ hdr_log = << >> /\ last_ret = "none"
    /\ NoRelay
    /\ out_pc = "check1" /\ kind = 0 /\ len = 0
    /\ buf = [i \in 1..BUF_SIZE |-> 0]
    /\ out_to_write = << >> /\ out_res = "running"
    /\ stdin_log = << >> /\ sock_out = << >>
    /\ stdout_log = << >> /\ chunks_read = << >>
    /\ consumed = 0 /\ frame_start = 0
    /\ sock_in = << >> /\ daemon_closed = FALSE
    /\ sent \in ChunkSeqs
    /\ deleted_at \in 0..Len(Frames(sent))
    /\ all_valid = (deleted_at = 0)
    /\ inputs_left = 0
    /\ NoWriter /\ NoLookup
    /\ flush_err = FALSE

\* Every chunk is written with write_to (stop never set, the writer taking
\* every byte), the byte at deleted_at is lost, and the stream ends.
CodecWrite ==
    /\ phase = "codec" /\ ~daemon_closed
    /\ sock_in' = DeleteAt(Frames(sent), deleted_at)
    /\ daemon_closed' = TRUE
    /\ UNCHANGED << sent, all_valid, deleted_at >>
    /\ UNCHANGED << client_vars, stop, in_vars, out_vars, sup_vars, first_failed,
                    inputs_left >>
    /\ UNCHANGED << writer_vars, env_vars >>

CodecNext == CodecWrite \/ OutNext

CodecSpec == CodecInit /\ [][CodecNext]_vars

(***************************************************************************)
(* AttachHeader::local_env_get alone: one call on one header.              *)
(***************************************************************************)
\* How many pairs local_env holds at most.
MaxPairs == 3

\* The variable names and values of the model; "HOME" is in no header.
EnvKeys == {"SSH_AUTH_SOCK", "TERM"}

EnvVals == {"a", "b"}

\* Option<&str>.
None == [some |-> FALSE]

Some(val) == [some |-> TRUE, val |-> val]

RECURSIVE LastMatch(_, _)
\* A lookup that returns the value of the last pair with the key.
LastMatch(env, v) ==
    IF env = << >> THEN None
    ELSE IF env[Len(env)][1] = v THEN Some(env[Len(env)][2])
    ELSE LastMatch(Take(env, Len(env) - 1), v)

RECURSIVE local_env_get(_, _)
\* `for (key, val) in self.local_env.iter() { if var == key { return
\* Some(val.as_str()) } } None`
local_env_get(env, v) ==
    IF env = << >> THEN None
    ELSE IF v = Head(env)[1] THEN Some(Head(env)[2])
    ELSE local_env_get(Tail(env), v)

\* Nothing but the header exists: no Client, no relay, no write_to.
NoClient ==
    /\ traffic = << >> /\ hdr_log = << >> /\ last_ret = "none"
    /\ NoRelay
    /\ out_pc = "none" /\ kind = 0 /\ len = 0
    /\ buf = [i \in 1..BUF_SIZE |-> 0]
    /\ out_to_write = << >> /\ out_res = "none"
    /\ Quiet
    /\ inputs_left = 0

\* Any header of up to MaxPairs pairs and any variable name.
EnvInit ==
    /\ phase = "lookup"
    /\ NoClient /\ NoWriter
    /\ local_env \in SeqsOf(EnvKeys \X EnvVals, 0, MaxPairs)
    /\ var \in EnvKeys \cup {"HOME"}
    /\ env_ret = Pending

\* One call of local_env_get.
LocalEnvGet ==
    /\ phase = "lookup" /\ env_ret = Pending
    /\ env_ret' = local_env_get(local_env, var)
    /\ UNCHANGED << local_env, var >>
    /\ UNCHANGED << client_vars, stop, in_vars, out_vars, daemon_vars, sup_vars,
                    first_failed, inputs_left, writer_vars >>

EnvSpec == EnvInit /\ [][LocalEnvGet]_vars

(***************************************************************************)
(* Chunk::write_to alone, on a nonblocking writer: any write may be        *)
(* answered with WouldBlock or take only part of the bytes offered, and    *)
(* another thread may set stop.                                            *)
(***************************************************************************)
\* How many times the writer answers WouldBlock in one call of write_to.
MaxWouldBlock == 2

ErrWriter == "write error"

\* write_to returns `r`.
WrReturn(r) == wr_pc' = "done" /\ wr_res' = r

\* The writer answers WouldBlock: `thread::sleep(..); continue`.
WrWouldBlock(back) ==
    /\ wr_blocks < MaxWouldBlock
    /\ wr_blocks' = wr_blocks + 1
    /\ wr_pc' = back
    /\ UNCHANGED wr_res

\* Where write_to goes with `to_write` set: `while to_write.len() > 0`, and
\* `Ok(())` after the loop.
WrAfterSlice(w) ==
    IF Len(w) > 0 THEN wr_pc' = "bufCheck" /\ UNCHANGED wr_res ELSE WrReturn("ok")

\* Head of the first loop: `if stop.load() { return Ok(()) }`.
WrCheckTag ==
    /\ phase = "writer" /\ wr_pc = "tagCheck"
    /\ IF stop THEN WrReturn("ok") ELSE wr_pc' = "tag" /\ UNCHANGED wr_res
    /\ UNCHANGED << wr_chunk, wr_to_write, wire, wr_blocks >>
    /\ UNCHANGED << client_vars, stop, in_vars, out_vars, daemon_vars, sup_vars,
                    first_failed, inputs_left, env_vars >>

\* `w.write_u8(self.kind as u8)`, a write_all of one byte: the writer takes
\* the byte, answers WouldBlock, or fails.
WrTag ==
    /\ phase = "writer" /\ wr_pc = "tag"
    /\ \/ /\ wire' = wire \o TagBytes(wr_chunk)
          /\ wr_pc' = "lenCheck"
          /\ UNCHANGED << wr_res, wr_blocks >>
       \/ /\ WrWouldBlock("tagCheck")
          /\ UNCHANGED wire
       \/ /\ WrReturn(ErrWriter)
          /\ UNCHANGED << wire, wr_blocks >>
    /\ UNCHANGED << wr_chunk, wr_to_write >>
    /\ UNCHANGED << client_vars, stop, in_vars, out_vars, daemon_vars, sup_vars,
                    first_failed, inputs_left, env_vars >>

\* Head of the second loop: `if stop.load() { return Ok(()) }`.
WrCheckLen ==
    /\ phase = "writer" /\ wr_pc = "lenCheck"
    /\ IF stop THEN WrReturn("ok") ELSE wr_pc' = "len" /\ UNCHANGED wr_res
    /\ UNCHANGED << wr_chunk, wr_to_write, wire, wr_blocks >>
    /\ UNCHANGED << client_vars, stop, in_vars, out_vars, daemon_vars, sup_vars,
                    first_failed, inputs_left, env_vars >>

\* `w.write_u32::<LittleEndian>(self.buf.len() as u32)`, a write_all of four
\* bytes, offered whole at every try: the writer takes k of them; with all
\* taken the call succeeds and `to_write = &self.buf[..]`, otherwise
\* write_all returns the WouldBlock or the error that stopped it, the k
\* bytes staying written.
WrLen ==
    /\ phase = "writer" /\ wr_pc = "len"
    /\ LET offer == LenBytes(wr_chunk) IN
       \E k \in 0..Len(offer) :
          /\ wire' = wire \o Take(offer, k)
          /\ \/ /\ k = Len(offer)
                /\ wr_to_write' = wr_chunk.buf
                /\ WrAfterSlice(wr_chunk.buf)
                /\ UNCHANGED wr_blocks
             \/ /\ k < Len(offer)
                /\ WrWouldBlock("lenCheck")
                /\ UNCHANGED wr_to_write
             \/ /\ k < Len(offer)
                /\ WrReturn(ErrWriter)
                /\ UNCHANGED << wr_to_write, wr_blocks >>
    /\ UNCHANGED wr_chunk
    /\ UNCHANGED << client_vars, stop, in_vars, out_vars, daemon_vars, sup_vars,
                    first_failed, inputs_left, env_vars >>

\* Head of the payload loop: `if stop.load() { return Ok(()) }`.
WrCheckBuf ==
    /\ phase = "writer" /\ wr_pc = "bufCheck"
    /\ IF stop THEN WrReturn("ok") ELSE wr_pc' = "buf" /\ UNCHANGED wr_res
    /\ UNCHANGED << wr_chunk, wr_to_write, wire, wr_blocks >>
    /\ UNCHANGED << client_vars, stop, in_vars, out_vars, daemon_vars, sup_vars,
                    first_failed, inputs_left, env_vars >>

\* `w.write(&to_write)`: the writer takes nwritten bytes, answers
\* WouldBlock, or fails.
WrBuf ==
    /\ phase = "writer" /\ wr_pc = "buf"
    /\ \/ /\ \E nwritten \in 0..Len(wr_to_write) :
                /\ wire' = wire \o Take(wr_to_write, nwritten)
                /\ wr_to_write' = Advance(wr_to_write, nwritten)
                /\ WrAfterSlice(Advance(wr_to_write, nwritten))
          /\ UNCHANGED wr_blocks
       \/ /\ WrWouldBlock("bufCheck")
          /\ UNCHANGED << wire, wr_to_write >>
       \/ /\ WrReturn(ErrWriter)
          /\ UNCHANGED << wire, wr_to_write, wr_blocks >>
    /\ UNCHANGED wr_chunk
    /\ UNCHANGED << client_vars, stop, in_vars, out_vars, daemon_vars, sup_vars,
                    first_failed, inputs_left, env_vars >>

\* The caller's other thread sets stop while write_to runs.
StopSet ==
    /\ phase = "writer" /\ wr_pc # "done" /\ ~stop
    /\ stop' = TRUE
    /\ UNCHANGED << client_vars, in_vars, out_vars, daemon_vars, sup_vars,
                    first_failed, inputs_left, writer_vars, env_vars >>

\* write_to is called with any valid chunk, stop set or not.
WriterInit ==
    /\ phase = "writer"
    /\ traffic = << >> /\ hdr_log = << >> /\ last_ret = "none"
    /\ stop \in BOOLEAN
    /\ in_pc = "none" /\ in_to_write = << >> /\ in_res = "none"
    /\ sup_pc = "none" /\ result = "none" /\ first_failed = "none"
    /\ out_pc = "none" /\ kind = 0 /\ len = 0
    /\ buf = [i \in 1..BUF_SIZE |-> 0]
    /\ out_to_write = << >> /\ out_res = "none"
    /\ Quiet
    /\ inputs_left = 0
    /\ wr_pc = "tagCheck" /\ wr_chunk \in ValidChunks /\ wr_to_write = << >>
    /\ wr_res = "running" /\ wire = << >> /\ wr_blocks = 0
    /\ NoLookup

WriterNext ==
    \/ WrCheckTag \/ WrTag \/ WrCheckLen \/ WrLen \/ WrCheckBuf \/ WrBuf
    \/ StopSet

WriterSpec == WriterInit /\ [][WriterNext]_vars

\* The threads are scheduled: a worker or the supervising thread that can
\* take a step takes one. Nothing makes the daemon write or the user type.
FairSpec ==
    /\ Init /\ [][Next]_vars
    /\ WF_vars(InNext) /\ WF_vars(OutNext) /\ WF_vars(SupNext)

(***************************************************************************)
(* The claims.                                                             *)
(***************************************************************************)
\* The sock->stdout worker has handled every chunk the daemon wrote and is
\* at the head of its loop or waiting for the next frame.
Processed ==
    /\ out_pc \in {"check1", "rdKind"}
    /\ Len(chunks_read) = Len(sent)
    /\ sock_in = << >>

\* C1: heartbeat invisibility. While the daemon writes only valid Data and
\* Heartbeat chunks, stdout holds a prefix of the Data payloads in arrival
\* order (so no Heartbeat byte reaches it), and once the worker has handled
\* every chunk stdout holds exactly the Data payloads, concatenated in order.
C1_HeartbeatInvisible ==
    all_valid =>
        /\ IsPrefix(stdout_log, DataConcat(sent))
        /\ Processed => stdout_log = DataConcat(sent)

\* C1 witness: a Heartbeat and a Data chunk, both with payload, were handled.
C1_Witness ==
    /\ all_valid /\ Processed /\ Len(sent) = 2
    /\ \E i \in 1..2 : sent[i].kind = Heartbeat /\ Len(sent[i].buf) > 0
    /\ \E i \in 1..2 : sent[i].kind = Data /\ Len(sent[i].buf) > 1

\* C2: input transparency. The bytes written to the socket are a prefix of
\* the bytes read from stdin; with a slice pending they and the slice make
\* up what was read; and at every stdin read and flush all of it is written.
C2_InputTransparent ==
    /\ IsPrefix(sock_out, stdin_log)
    /\ in_pc \in {"check2", "write"} => sock_out \o in_to_write = stdin_log
    /\ in_pc \in {"check1", "read", "flush"} => sock_out = stdin_log

\* C2 witness: a second stdin read is about to happen with more than one
\* byte read before it, all on the socket.
C2_Witness ==
    /\ in_pc = "read" /\ inputs_left > 0
    /\ Len(stdin_log) > 1 /\ stdin_log[1] # stdin_log[2]
    /\ sock_out = stdin_log

\* C3: monotone stop as termination. Once stop is set both workers end.
C3_StopTerminates == stop ~> (in_pc = "done" /\ out_pc = "done")

\* C4: relay result. pipe_bytes returns the error of the worker that failed
\* first; the later worker's error never replaces it.
C4_FirstErrorReturned ==
    sup_pc = "returned" =>
        /\ first_failed = "out" => result \in OutErrors
        /\ first_failed = "in" => result \in InErrors

\* The length the frame being read declares is over the scratch capacity.
DeclaredOver ==
    /\ out_pc = "rdLen" /\ Len(sock_in) >= 4
    /\ \/ sock_in[3] > 0 \/ sock_in[4] > 0
       \/ sock_in[1] + 256 * sock_in[2] > BUF_SIZE

\* C7: oversize rejection. Reading a length over the scratch capacity ends
\* the worker with the oversize error, with the 5 header bytes of the frame
\* consumed and no payload byte, the scratch buffer and stdout unchanged;
\* and a worker that has ended reads and writes nothing more.
C7_OversizeRejected ==
    [][ /\ (DeclaredOver /\ out_pc' # out_pc) =>
             /\ out_pc' = "done" /\ out_res' = ErrOversize
             /\ consumed' = frame_start + 5
             /\ sock_in' = Drop(sock_in, 4)
             /\ buf' = buf /\ stdout_log' = stdout_log
        /\ out_pc = "done" =>
             /\ out_pc' = "done" /\ out_res' = out_res
             /\ consumed' = consumed /\ stdout_log' = stdout_log /\ buf' = buf
      ]_vars

\* C7 witness: the worker ended on an oversize frame that came after a Data
\* chunk it had written, with the frame's payload still on the socket.
C7_Witness ==
    /\ out_pc = "done" /\ out_res = ErrOversize
    /\ consumed = frame_start + 5
    /\ sock_in # << >>
    /\ stdout_log # << >>

\* The stdout errors, which are no failure of read_into.
StdoutErrors == {ErrSelect, ErrStdoutWrite}

\* C5: chunk round trip. A stream of chunks written by write_to is read by
\* read_into as the same chunks in the same order: what was read is always
\* a prefix of what was written, no read fails before the end of the
\* stream, and at the end of the stream every chunk has been read.
C5_RoundTrip ==
    (phase = "codec" /\ deleted_at = 0) =>
        /\ IsPrefix(chunks_read, sent)
        /\ out_res \notin {ErrOversize, ErrUnknownKind}
        /\ out_res = ErrEof => chunks_read = sent /\ consumed = Len(Frames(sent))

\* C5 witness: two chunks of different kinds, both with a payload of
\* BUF_SIZE bytes, were written and read back to the end of the stream.
C5_Witness ==
    /\ phase = "codec" /\ deleted_at = 0 /\ out_res = ErrEof
    /\ chunks_read = sent /\ Len(sent) = 2
    /\ sent[1].kind # sent[2].kind
    /\ Len(sent[1].buf) = BUF_SIZE /\ Len(sent[2].buf) = BUF_SIZE

\* C6 as claimed: with one byte of the stream deleted the decoder fails with
\* unknown kind or unexpected end of file, and every chunk it returns before
\* is the chunk at the same index of the original stream.
C6_NeverMisaligns ==
    (phase = "codec" /\ deleted_at > 0) =>
        /\ IsPrefix(chunks_read, sent)
        /\ out_res \notin StdoutErrors /\ out_pc = "done"
              => out_res \in {ErrUnknownKind, ErrEof}

\* The length of the stream up to the end of the i-th chunk of cs.
FrameEnd(cs, i) == Len(Frames(Take(cs, i)))

\* C6 amended: with one byte of the stream deleted, the decoder returns
\* unchanged every chunk that ends before the deleted byte; chunks from the
\* deleted byte on may differ from the originals; the decoder never returns
\* the whole original sequence, and it fails with unknown kind, oversize or
\* unexpected end of file.
C6_PrefixIntact ==
    (phase = "codec" /\ deleted_at > 0) =>
        /\ \A i \in 1..Len(sent) :
              (FrameEnd(sent, i) < deleted_at /\ i <= Len(chunks_read))
                  => chunks_read[i] = sent[i]
        /\ \A i \in 1..Len(sent) :
              (FrameEnd(sent, i) < deleted_at /\ out_pc = "done"
               /\ out_res \notin StdoutErrors)
                  => i <= Len(chunks_read)
        /\ chunks_read # sent
        /\ out_res \notin StdoutErrors /\ out_pc = "done"
              => out_res \in {ErrUnknownKind, ErrOversize, ErrEof}

\* C6 witness: the first chunk, before the deleted byte, was returned
\* unchanged, and a second chunk was returned that is not the original one.
C6_Witness ==
    /\ phase = "codec" /\ deleted_at > 0
    /\ Len(sent) = 2 /\ Len(chunks_read) = 2
    /\ FrameEnd(sent, 1) < deleted_at
    /\ chunks_read[1] = sent[1]
    /\ chunks_read[2] # sent[2]

\* C8: connect frame grammar. The bytes write_connect_header puts on a fresh
\* socket are a 4-byte little-endian length n and then n bytes, the encoding
\* of the header.
C8_LengthPrefixed ==
    (phase = "client" /\ traffic = << "hdr" >>) =>
        /\ Len(sock_out) >= 4
        /\ FromLE32(Take(sock_out, 4)) = [lo |-> Len(sock_out) - 4, hi |-> 0]
        /\ Drop(sock_out, 4) = EncodeHeader(hdr_log[1])

\* What the Client did on the socket: the calls that moved bytes, in order.
OnSocket == SelectSeq(traffic, LAMBDA e : e # "failed")

\* C9 as claimed: whatever calls are made, the first thing on the socket is
\* the connect header and no second header follows it.
C9_HeaderOnceAndFirst ==
    OnSocket # << >> =>
        /\ OnSocket[1] = "hdr"
        /\ \A i \in 2..Len(OnSocket) : OnSocket[i] # "hdr"

\* C9 amended: the Client keeps no record of what it sent. Every
\* write_connect_header on an open socket writes one more header, so the
\* socket carries the encodings of the headers of all such calls in call
\* order (one header only if the caller calls once); read_reply and
\* pipe_bytes act whether or not a header was written; and pipe_bytes
\* consumes the Client: no header is written and no reply read after it.
C9_HeaderPerCall ==
    /\ Len(hdr_log) = Len(SelectSeq(traffic, LAMBDA e : e = "hdr"))
    /\ IsPrefix(Concat([i \in 1..Len(hdr_log) |-> EncodeHeader(hdr_log[i])]), sock_out)
    /\ phase = "client" =>
          sock_out = Concat([i \in 1..Len(hdr_log) |-> EncodeHeader(hdr_log[i])])
    /\ \A i \in 1..Len(traffic) : traffic[i] = "relay" => i = Len(traffic)
    /\ phase = "relay" => traffic # << >> /\ traffic[Len(traffic)] = "relay"

\* C9 witness: a second write_connect_header put a second header on the
\* socket, and the relay then started on it.
C9_Witness ==
    /\ phase = "relay"
    /\ traffic = << "hdr", "hdr", "relay" >>
    /\ Len(sock_out) > Len(EncodeHeader(hdr_log[1]))

C10_WitnessRejected ==
    /\ phase = "closed" /\ last_ret = "Busy" /\ sup_pc = "none"

\* The positions of the pairs of local_env whose key is var.
Matches == {i \in 1..Len(local_env) : local_env[i][1] = var}

\* C11: env lookup. local_env_get returns the value of the first pair, in
\* sequence order, whose key equals the name asked for, whatever pairs with
\* the same key follow, and none exactly when no pair has the key.
C11_FirstMatch ==
    (phase = "lookup" /\ env_ret # Pending) =>
        /\ Matches = {} <=> env_ret = None
        /\ Matches # {} =>
              env_ret = Some(local_env[CHOOSE i \in Matches : \A j \in Matches : i <= j][2])

\* C11 witness: the key is not in the first pair and is in two later pairs
\* with different values; the call returned the earlier value.
C11_Witness ==
    /\ phase = "lookup" /\ Len(local_env) = 3
    /\ Matches = {2, 3}
    /\ local_env[2][2] # local_env[3][2]
    /\ env_ret = Some(local_env[2][2])

\* C12: write_to on a nonblocking writer. When write_to returns success and
\* stop was never set, the writer holds exactly the frame: the kind byte,
\* the length in 4 bytes little endian, the payload; no byte twice, none
\* left out, also after a WouldBlock in the middle of the length field.
C12_ExactFrame ==
    (phase = "writer" /\ wr_pc = "done" /\ wr_res = "ok" /\ ~stop) =>
        wire = WriteTo(wr_chunk)

\* C17: write_to under stop. Once stop is set, the bytes write_to has
\* written are a prefix of the frame kind | len | payload (none when stop
\* was set before the first write), and a call that returns success without
\* the whole frame written has observed stop.
C17_StopLeavesPrefix ==
    phase = "writer" =>
        /\ stop => IsPrefix(wire, WriteTo(wr_chunk))
        /\ (wr_pc = "done" /\ wr_res = "ok" /\ ~IsPrefix(WriteTo(wr_chunk), wire)) => stop

\* C13: read_into validates the kind first. A frame whose kind byte is not
\* Data and not Heartbeat is refused at the kind byte: read_into never goes
\* on to the length or the payload of such a frame, and so never reports
\* it as oversize.
C13_KindFirst ==
    /\ out_pc \in {"rdLen", "rdPayload"} => FromU8Ok(kind)
    /\ out_res = ErrOversize => FromU8Ok(kind)

\* C14: error propagation in the pumps. WouldBlock is the only I/O error a
\* pump goes on after: an error of stdout.flush that is no WouldBlock ends
\* the sock->stdout worker with an error, as the errors of the other calls
\* do.
C14_FlushErrorEndsPump ==
    flush_err => (out_pc = "done" /\ out_res \notin {"ok", "running"})

\* C15: supervisor protocol. stop is set by the supervising thread alone, at
\* the moment it leaves its polling loop, and only with a worker finished:
\* stop is never true while both workers run; and pipe_bytes has not
\* returned while a worker runs.
C15_Supervisor ==
    phase \in {"relay", "closed"} =>
        /\ stop => (in_pc = "done" \/ out_pc = "done")
        /\ stop <=> sup_pc # "poll"
        /\ sup_pc = "returned" => (in_pc = "done" /\ out_pc = "done")
        /\ result # "none" => (in_pc = "done" /\ result \in {in_res, out_res})

\* C15 witness: pipe_bytes returned after the sock->stdout worker failed at
\* the end of the stream and the stdin->sock worker, with bytes relayed,
\* ended on stop.
C15_Witness ==
    /\ sup_pc = "returned" /\ stop
    /\ out_res = ErrEof /\ in_res = "ok"
    /\ sock_out # << >>

\* C16: stop is monotonic. It is false when pipe_bytes starts, and no step
\* of a worker or of the supervising thread takes it from true to false.
C16_StopMonotonic ==
    /\ phase = "relay" => ~stop
    /\ [][stop => stop']_vars

\* C16 witness: with stop set, the stdin->sock worker loaded it in its inner
\* loop and returned, bytes of its slice unwritten.
C16_Witness ==
    /\ stop /\ in_pc = "done" /\ in_res = "ok"
    /\ in_to_write # << >>

\* C18: read-side cancellation at frame boundaries. The sock->stdout worker
\* observes stop only between frames or while it drains a payload it has
\* read whole: when it has returned on stop, the bytes it consumed are the
\* frames of the chunks read_into returned, each whole (with a daemon that
\* writes valid chunks: the first of the chunks it wrote, unchanged), while
\* bytes of the last payload may be unwritten; and in the middle of a frame
\* it has not returned on stop.
C18_WholeFrames ==
    /\ (out_pc = "done" /\ out_res = "ok") =>
          /\ stop
          /\ consumed = Len(Frames(chunks_read))
          /\ all_valid =>
                /\ IsPrefix(chunks_read, sent)
                /\ sock_in = Drop(Frames(sent), consumed)
    /\ out_pc \in {"rdLen", "rdPayload"} =>
          /\ out_res = "running"
          /\ consumed > Len(Frames(chunks_read))

\* C18 witness: the worker returned on stop after two whole frames, with a
\* byte of the second payload written and a byte of it unwritten.
C18_Witness ==
    /\ out_pc = "done" /\ out_res = "ok" /\ all_valid
    /\ Len(chunks_read) = 2
    /\ consumed = Len(Frames(sent))
    /\ sent[2].kind = Data /\ Len(sent[2].buf) = 2
    /\ Len(out_to_write) = 1

\* C19: stdin end of file. A stdin read that returns zero bytes writes
\* nothing to the socket, sets no stop and ends no thread: the worker goes
\* to the flush and, the flush done, to the head of its loop; and the
\* worker, once ended, has either observed stop or met an I/O error.
C19_EofGoesOn ==
    /\ [][ /\ (in_pc = "read" /\ in_pc' = "flush") =>
                /\ sock_out' = sock_out /\ stdin_log' = stdin_log
                /\ stop' = stop /\ in_res' = "running" /\ in_to_write' = << >>
           /\ (in_pc = "flush" /\ in_pc' # "flush") =>
                /\ sock_out' = sock_out
                /\ in_pc' = "check1" \/ (in_pc' = "done" /\ in_res' = ErrSockFlush)
         ]_vars
    /\ [](in_pc = "done" => ((in_res = "ok" /\ stop) \/ in_res \in InErrors))

\* C19 witness: after an end of file as the first answer of stdin the worker
\* is back at its read, nothing read and nothing written.
C19_Witness ==
    /\ in_pc = "flush" /\ stdin_log = << >> /\ sock_out = << >>
    /\ ~stop /\ in_res = "running"

\* The chunk read last is a Data chunk: `to_write` is what is left of it.
LastIsData == chunks_read # << >> /\ chunks_read[Len(chunks_read)].kind = Data

\* C20: output prefix invariant. The bytes written to stdout are a prefix
\* of the payloads of the Data chunks read so far, in order, whatever the
\* daemon wrote; while a payload drains, stdout and the unwritten rest make
\* up those payloads exactly, so that a select timeout, an unready stdout
\* or a stop in the middle neither writes nor skips a byte.
C20_OutputPrefix ==
    /\ IsPrefix(stdout_log, DataConcat(chunks_read))
    /\ out_pc \in {"check2", "select", "write", "flush"} =>
          /\ LastIsData
          /\ stdout_log \o out_to_write = DataConcat(chunks_read)
    /\ (out_pc = "done" /\ out_res \in {"ok", ErrSelect, ErrStdoutWrite} /\ LastIsData) =>
          stdout_log \o out_to_write = DataConcat(chunks_read)

\* C20 witness: stop interrupted the drain of a second Data payload after a
\* short write, the first payload and one byte of the second on stdout.
C20_Witness ==
    /\ out_pc = "done" /\ out_res = "ok"
    /\ Len(chunks_read) = 2
    /\ chunks_read[1].kind = Data /\ chunks_read[2].kind = Data
    /\ Len(stdout_log) = Len(chunks_read[1].buf) + 1
    /\ Len(out_to_write) = 1

====
